---- MODULE Spec2Model ----
(***************************************************************************)
(* Aadhaar card extraction service: the /extract handler of app/main.py,   *)
(* the region OCR adapter and the field normalizers of app/utils.py.       *)
(*                                                                         *)
(* A Python str is a sequence of one-character strings; Python's None is   *)
(* the value None below, which is no sequence of characters.  A float      *)
(* confidence is its value in percent; a bounding box holds the integers   *)
(* that map(int, bbox) yields.                                             *)
(***************************************************************************)
EXTENDS Integers, Sequences, FiniteSets, TLC

VARIABLES
    pc,              \* position of the /extract handler
    boxes,           \* results[0].boxes: the detector's output, in its order
    tesseract,       \* what pytesseract.image_to_string yields on box i's crop
    i,               \* the loop variable of "for i in range(len(boxes))", 1-based
    detections,      \* the handler's list of accepted detections
    extracted_data,  \* the handler's dict field name -> raw text
    processed_data,  \* postprocess_extracted_data(extracted_data), None before
    response,        \* HTTP status of the response, 0 while none is sent
    ocr_log,         \* history: box indices on which the OCR engine was invoked
    accepted,        \* history: box index of each entry of detections
    model,           \* the global model: the loaded detector, or None
    tesseract_available, \* the global tesseract_available
    started,         \* the startup part of lifespan has run
    health,          \* status of the last /health response, "none" before any
    reqs,            \* the /extract requests in flight: locals and history
    files            \* the temporary files that exist in UPLOAD_DIR

(* The variables of one run of the handler's loop, and those of the service *)
hvars == <<pc, boxes, tesseract, i, detections, extracted_data, processed_data,
           response, ocr_log, accepted>>

svars == <<model, tesseract_available, started, health, reqs, files>>

vars == <<hvars, svars>>

---------------------------------------------------------------------------
(* Bounds of the model *)

MaxBoxes == 2
ImgW == 3
ImgH == 3
Pad == 2
MaxDigits == 13
MaxJunk == 2
MaxShortLen == 3
MaxWords == 2

(* Program constants *)

CONFIDENCE_THRESHOLD == 50

(* Settings.MAX_FILE_SIZE_MB *)
MAX_FILE_SIZE_MB == 10
AadhaarLen == 12

---------------------------------------------------------------------------
(* Python values *)

None == << "None" >>

Truthy(v) == v # None /\ v # << >>

Max(a, b) == IF a >= b THEN a ELSE b
Min(a, b) == IF a <= b THEN a ELSE b

LowerLetters == << "a", "b", "c", "d", "e", "f", "g", "h", "i", "j", "k", "l", "m",
                   "n", "o", "p", "q", "r", "s", "t", "u", "v", "w", "x", "y", "z" >>
UpperLetters == << "A", "B", "C", "D", "E", "F", "G", "H", "I", "J", "K", "L", "M",
                   "N", "O", "P", "Q", "R", "S", "T", "U", "V", "W", "X", "Y", "Z" >>
DigitChars == << "0", "1", "2", "3", "4", "5", "6", "7", "8", "9" >>

Range(s) == { s[k] : k \in DOMAIN s }

IsLower(c) == c \in Range(LowerLetters)
IsUpper(c) == c \in Range(UpperLetters)
IsLetter(c) == IsLower(c) \/ IsUpper(c)
IsDigit(c) == c \in Range(DigitChars)
IsSpace(c) == c \in { " ", "\n", "\t" }

IndexOf(s, c) == CHOOSE k \in DOMAIN s : s[k] = c

ToLower(c) == IF IsUpper(c) THEN LowerLetters[IndexOf(UpperLetters, c)] ELSE c
ToUpper(c) == IF IsLower(c) THEN UpperLetters[IndexOf(LowerLetters, c)] ELSE c

(* str.lower() *)
Lower(s) == [ k \in DOMAIN s |-> ToLower(s[k]) ]

(* Fault: only the first letter of a whitespace-delimited token is uppercased *)
Title_per_token(s) ==
    [ k \in DOMAIN s |-> IF k > 1 /\ ~IsSpace(s[k - 1]) THEN ToLower(s[k]) ELSE ToUpper(s[k]) ]

(* str.title(): a letter that follows a letter is lowercased, any other letter
   is uppercased *)
Title(s) == [ k \in DOMAIN s |->
                IF k > 1 /\ IsLetter(s[k - 1]) THEN ToLower(s[k]) ELSE ToUpper(s[k]) ]

(* "sub in s" *)
Contains(s, sub) ==
    \E k \in 1 .. (Len(s) - Len(sub) + 1) : SubSeq(s, k, k + Len(sub) - 1) = sub

RECURSIVE LStripSet(_, _)
LStripSet(s, cs) ==
    IF s # << >> /\ Head(s) \in cs THEN LStripSet(Tail(s), cs) ELSE s

RECURSIVE RStripSet(_, _)
RStripSet(s, cs) ==
    IF s # << >> /\ s[Len(s)] \in cs THEN RStripSet(SubSeq(s, 1, Len(s) - 1), cs) ELSE s

Whitespace == { " ", "\n", "\t" }

(* str.strip() *)
Strip(s) == RStripSet(LStripSet(s, Whitespace), Whitespace)

(* re.sub(r'\s+', ' ', s): every run of whitespace becomes one space *)
RECURSIVE CollapseWs(_)
CollapseWs(s) ==
    IF s = << >> THEN << >>
    ELSE IF IsSpace(Head(s))
         THEN << " " >> \o CollapseWs(LStripSet(s, Whitespace))
         ELSE << Head(s) >> \o CollapseWs(Tail(s))

(* ' '.join(s.split()) *)
JoinSplit(s) == Strip(CollapseWs(s))

(* str.replace('-', '/') *)
ReplaceDash(s) == [ k \in DOMAIN s |-> IF s[k] = "-" THEN "/" ELSE s[k] ]

---------------------------------------------------------------------------
(* Field normalizers, app/utils.py *)

(* re.sub(r'\D', '', text) *)
OnlyDigits(text) == SelectSeq(text, IsDigit)

(* f"{digits[0:4]} {digits[4:8]} {digits[8:12]}" *)
FormatGroups(digits) ==
    SubSeq(digits, 1, 4) \o << " " >> \o SubSeq(digits, 5, 8) \o << " " >>
        \o SubSeq(digits, 9, 12)

(* Fault: the branch for more than 12 digits is missing *)
clean_aadhaar_no_truncate(text) ==
    LET digits == OnlyDigits(text)
    IN  IF Len(digits) = AadhaarLen THEN FormatGroups(digits) ELSE text

clean_aadhaar_number(text) ==
    LET digits == OnlyDigits(text)
    IN  IF Len(digits) = AadhaarLen THEN FormatGroups(digits)
        ELSE IF Len(digits) > AadhaarLen
             THEN FormatGroups(SubSeq(digits, 1, AadhaarLen))
             ELSE text

IsDateChar(c) == IsDigit(c) \/ c = "/" \/ c = "-"
IsSep(c) == c = "/" \/ c = "-"

(* Fault: the two-digit-year pattern is tried before the four-digit-year one *)
DatePatterns_year2_first ==
    << << "d", "d", "s", "d", "d", "s", "d", "d" >>,
       << "d", "d", "s", "d", "d", "s", "d", "d", "d", "d" >>,
       << "d", "d", "d", "d" >> >>

(* The three patterns of clean_date, as the shape of a match: "d" a digit,
   "s" one of / and - *)
DatePatterns == << << "d", "d", "s", "d", "d", "s", "d", "d", "d", "d" >>,
                   << "d", "d", "s", "d", "d", "s", "d", "d" >>,
                   << "d", "d", "d", "d" >> >>

MatchesAt(text, pat, k) ==
    /\ k + Len(pat) - 1 <= Len(text)
    /\ \A j \in DOMAIN pat :
          IF pat[j] = "d" THEN IsDigit(text[k + j - 1]) ELSE IsSep(text[k + j - 1])

(* re.search(pattern, text): the leftmost match, or None *)
Search(text, pat) ==
    LET starts == { k \in 1 .. Len(text) : MatchesAt(text, pat, k) }
    IN  IF starts = {} THEN None
        ELSE LET k == CHOOSE m \in starts : \A n \in starts : m <= n
             IN  SubSeq(text, k, k + Len(pat) - 1)

RECURSIVE FirstDateMatch(_, _)
FirstDateMatch(text, p) ==
    IF p > Len(DatePatterns) THEN None
    ELSE IF Search(text, DatePatterns[p]) # None
         THEN ReplaceDash(Search(text, DatePatterns[p]))
         ELSE FirstDateMatch(text, p + 1)

clean_date(text) ==
    IF text = << >> THEN None
    ELSE LET cleaned == SelectSeq(text, IsDateChar)
             matched == FirstDateMatch(cleaned, 1)
         IN  IF matched # None THEN matched
             ELSE IF cleaned # << >> THEN cleaned ELSE None

IsNameChar(c) == IsLetter(c) \/ IsSpace(c) \/ c \in { "'", "-", "." }

clean_name(text) ==
    Title(RStripSet(JoinSplit(SelectSeq(text, IsNameChar)), { ".", ",", "'", "-" }))

IsGenderChar(c) == IsLetter(c) \/ IsSpace(c)

(* Fault: the text that matches no pattern is forced to a category *)
clean_gender_forced(text) ==
    LET t == Lower(Strip(SelectSeq(text, IsGenderChar)))
        male == << "m", "a", "l", "e" >>
        female == << "f", "e", "m", "a", "l", "e" >>
        femal == << "f", "e", "m", "a", "l" >>
    IN  IF Contains(t, male) /\ ~Contains(t, female) THEN << "M", "a", "l", "e" >>
        ELSE IF Contains(t, female) \/ Contains(t, femal)
             THEN << "F", "e", "m", "a", "l", "e" >>
        ELSE IF t # << >> /\ Head(t) = "m" THEN << "M", "a", "l", "e" >>
        ELSE IF t # << >> /\ Head(t) \in { "f", "w" } THEN << "F", "e", "m", "a", "l", "e" >>
        ELSE IF t # << >> THEN t ELSE None

clean_gender(text) ==
    LET t == Lower(Strip(SelectSeq(text, IsGenderChar)))
        male == << "m", "a", "l", "e" >>
        female == << "f", "e", "m", "a", "l", "e" >>
        femal == << "f", "e", "m", "a", "l" >>
    IN  IF Contains(t, male) /\ ~Contains(t, female) THEN << "M", "a", "l", "e" >>
        ELSE IF Contains(t, female) \/ Contains(t, femal)
             THEN << "F", "e", "m", "a", "l", "e" >>
        ELSE IF t \in { << "m" >>, << "m", "a", "n" >> } THEN << "M", "a", "l", "e" >>
        ELSE IF t \in { << "f" >>, << "w", "o", "m", "a", "n" >> }
             THEN << "F", "e", "m", "a", "l", "e" >>
        ELSE IF t # << >> THEN t ELSE None

(* The if/elif chain of postprocess_extracted_data *)
CleanField(key, value) ==
    IF key = "AADHAR_NUMBER" THEN clean_aadhaar_number(value)
    ELSE IF key = "DOB" THEN clean_date(value)
    ELSE IF key = "GENDER" THEN clean_gender(value)
    ELSE clean_name(value)

(* Fault: processed starts as an empty dict instead of the four None entries *)
postprocess_starts_empty(data) ==
    LET assigned == { k \in DOMAIN data :
                        Truthy(data[k]) /\ k \in { "AADHAR_NUMBER", "DOB", "GENDER", "NAME" } }
    IN  [ k \in assigned |-> CleanField(k, data[k]) ]

(* postprocess_extracted_data: processed starts as the four keys with None; a
   key of data with a truthy value is assigned only when it is one of the four
   keys the chain names *)
postprocess_extracted_data(data) ==
    LET initial == [ k \in { "AADHAR_NUMBER", "NAME", "DOB", "GENDER" } |-> None ]
        assigned == { k \in DOMAIN data :
                        Truthy(data[k]) /\ k \in { "AADHAR_NUMBER", "DOB", "GENDER", "NAME" } }
    IN  [ k \in DOMAIN initial \cup assigned |->
            IF k \in assigned THEN CleanField(k, data[k]) ELSE initial[k] ]

---------------------------------------------------------------------------
(* Region OCR adapter, app/utils.py *)

(* The outcome of pytesseract.image_to_string when the engine raises *)
Raise == << "Raise" >>

(* Length of the Python/numpy slice [start:stop] of an axis of length n: a
   negative index counts from the end of the axis, and both ends are clipped
   to the axis *)
SliceIndex(k, n) == IF k < 0 THEN Max(k + n, 0) ELSE Min(k, n)
SliceLen(start, stop, n) == Max(SliceIndex(stop, n) - SliceIndex(start, n), 0)

(* crop = image[y1:y2, x1:x2] after the clamping of lines 138-141; the number
   of pixels of the crop (crop.size is this times the channel count) *)
CropPixels(bbox, w, h) ==
    LET x1 == Max(0, bbox[1])
        y1 == Max(0, bbox[2])
        x2 == Min(w, bbox[3])
        y2 == Min(h, bbox[4])
    IN  SliceLen(y1, y2, h) * SliceLen(x1, x2, w)

(* Fault: the .strip() is missing *)
CleanOcrText_no_strip(text) ==
    LET t == CollapseWs(text) IN IF t # << >> THEN t ELSE None

(* text = re.sub(r'\s+', ' ', text).strip(); return text if text else None *)
CleanOcrText(text) ==
    LET t == Strip(CollapseWs(text)) IN IF t # << >> THEN t ELSE None

(* Fault: no try/except around the OCR call, the engine's exception leaves the
   function *)
extract_text_uncaught(bbox, w, h, ocr) ==
    IF CropPixels(bbox, w, h) = 0
    THEN [ called |-> FALSE, raised |-> FALSE, value |-> << >> ]
    ELSE IF ocr = Raise
         THEN [ called |-> TRUE, raised |-> TRUE, value |-> << >> ]
         ELSE [ called |-> TRUE, raised |-> FALSE, value |-> CleanOcrText(ocr) ]

(* extract_text_from_region on an image of w x h pixels, when the OCR engine
   would yield ocr on the crop.  called: the engine was invoked; raised: an
   exception leaves the function; value: what it returns *)
extract_text_from_region(bbox, w, h, ocr) ==
    IF CropPixels(bbox, w, h) = 0
    THEN [ called |-> FALSE, raised |-> FALSE, value |-> << >> ]
    ELSE IF ocr = Raise
         THEN [ called |-> TRUE, raised |-> FALSE, value |-> << >> ]
         ELSE [ called |-> TRUE, raised |-> FALSE, value |-> CleanOcrText(ocr) ]

---------------------------------------------------------------------------
(* The /extract handler, app/main.py, from the detector's result on *)

REQUIRED_FIELDS == { "AADHAR_NUMBER", "NAME", "DATE_OF_BIRTH", "GENDER" }

(* Fault: the allowlist check is missing *)
SkipLabel_never(label) == FALSE

(* "if label not in REQUIRED_FIELDS: continue" *)
SkipLabel(label) == label \notin REQUIRED_FIELDS

(* field_name = "DOB" if label == "DATE_OF_BIRTH" else label *)
FieldName(label) == IF label = "DATE_OF_BIRTH" THEN "DOB" ELSE label

(* "if text: extracted_data[field_name] = text" *)
StoreText(data, label, text) ==
    IF Truthy(text)
    THEN [ k \in DOMAIN data \cup { FieldName(label) } |->
             IF k = FieldName(label) THEN text ELSE data[k] ]
    ELSE data

EmptyDict == [ k \in {} |-> None ]

(* Fault: the detection is inserted at the front of the list *)
ProcessBox_prepends ==
    /\ pc = "loop"
    /\ i <= Len(boxes)
    /\ LET box == boxes[i]
           r == extract_text_from_region(box.bbox, ImgW, ImgH, tesseract[i])
       IN  IF SkipLabel(box.label)
           THEN /\ i' = i + 1
                /\ UNCHANGED <<pc, detections, extracted_data, response, ocr_log, accepted>>
           ELSE /\ ocr_log' = IF r.called THEN Append(ocr_log, i) ELSE ocr_log
                /\ IF r.raised
                   THEN /\ pc' = "done"
                        /\ response' = 500
                        /\ UNCHANGED <<i, detections, extracted_data, accepted>>
                   ELSE /\ detections' = << [ label |-> box.label, confidence |-> box.conf,
                                           bbox |-> box.bbox, text |-> r.value ] >>
                                           \o detections
                        /\ accepted' = Append(accepted, i)
                        /\ extracted_data' = StoreText(extracted_data, box.label, r.value)
                        /\ i' = i + 1
                        /\ UNCHANGED <<pc, response>>
    /\ UNCHANGED <<boxes, tesseract, processed_data>>
    /\ UNCHANGED svars

(* One iteration of "for i in range(len(boxes))", lines 240-269; an exception
   that leaves the adapter ends the handler in its "except Exception" clause *)
ProcessBox ==
    /\ pc = "loop"
    /\ i <= Len(boxes)
    /\ LET box == boxes[i]
           r == extract_text_from_region(box.bbox, ImgW, ImgH, tesseract[i])
       IN  IF SkipLabel(box.label)
           THEN /\ i' = i + 1
                /\ UNCHANGED <<pc, detections, extracted_data, response, ocr_log, accepted>>
           ELSE /\ ocr_log' = IF r.called THEN Append(ocr_log, i) ELSE ocr_log
                /\ IF r.raised
                   THEN /\ pc' = "done"
                        /\ response' = 500
                        /\ UNCHANGED <<i, detections, extracted_data, accepted>>
                   ELSE /\ detections' = Append(detections,
                                [ label |-> box.label, confidence |-> box.conf,
                                  bbox |-> box.bbox, text |-> r.value ])
                        /\ accepted' = Append(accepted, i)
                        /\ extracted_data' = StoreText(extracted_data, box.label, r.value)
                        /\ i' = i + 1
                        /\ UNCHANGED <<pc, response>>
    /\ UNCHANGED <<boxes, tesseract, processed_data>>
    /\ UNCHANGED svars

(* processed_data = postprocess_extracted_data(extracted_data), line 272 *)
Postprocess ==
    /\ pc = "loop"
    /\ i > Len(boxes)
    /\ processed_data' = postprocess_extracted_data(extracted_data)
    /\ pc' = "respond"
    /\ UNCHANGED <<boxes, tesseract, i, detections, extracted_data, response, ocr_log,
                   accepted>>
    /\ UNCHANGED svars

(* ExtractionResponse(success=True, ...) is returned, lines 278-288 *)
Respond ==
    /\ pc = "respond"
    /\ response' = 200
    /\ pc' = "done"
    /\ UNCHANGED <<boxes, tesseract, i, detections, extracted_data, processed_data,
                   ocr_log, accepted>>
    /\ UNCHANGED svars

Next == ProcessBox \/ Postprocess \/ Respond

---------------------------------------------------------------------------
(* Inputs *)

Labels == REQUIRED_FIELDS \cup { "ADDRESS" }
Confs == { 30, 90 }
InsideBox == << 0, 0, ImgW, ImgH >>

SeqsUpTo(S, n) == UNION { [ 1 .. m -> S ] : m \in 0 .. n }

(* What the OCR engine yields in the pipeline runs: an exception, whitespace
   only, or one of two texts *)
PipelineOcr == { Raise, << " " >>, << "a", "1" >>, << "b", " ", "2", "\n" >> }

(* The service around a run of the handler's loop: started, both handles
   available, no other request *)
ServiceUp ==
    /\ model = << "YOLO" >>
    /\ tesseract_available = TRUE
    /\ started = TRUE
    /\ health = "none"
    /\ reqs = << >>
    /\ files = { }

StartHandler(bs, ocr) ==
    /\ ServiceUp
    /\ pc = "loop"
    /\ boxes = bs
    /\ tesseract = ocr
    /\ i = 1
    /\ detections = << >>
    /\ extracted_data = EmptyDict
    /\ processed_data = None
    /\ response = 0
    /\ ocr_log = << >>
    /\ accepted = << >>

(* The handler on any detector output of at most MaxBoxes boxes *)
Init ==
    \E bs \in SeqsUpTo([ label : Labels, conf : Confs, bbox : { InsideBox } ], MaxBoxes) :
        \E ocr \in [ DOMAIN bs -> PipelineOcr ] : StartHandler(bs, ocr)

Spec == Init /\ [][Next]_vars

(* The handler on one NAME box anywhere on or around the image *)
Coords(n) == (0 - Pad) .. (n + Pad)

RegionOcr == { Raise, << " " >>, << "a", "b" >> }

InitRegion ==
    \E x1, x2 \in Coords(ImgW), y1, y2 \in Coords(ImgH) :
        \E ocr \in RegionOcr :
            StartHandler(<< [ label |-> "NAME", conf |-> 90, bbox |-> << x1, y1, x2, y2 >> ] >>,
                         << ocr >>)

SpecRegion == InitRegion /\ [][Next]_vars

(* Raw texts for the normalizers.  DigitRun(n) is "1234567890123..." cut to n
   digits, so that every digit differs from its neighbours *)
DigitRun(n) == [ k \in 1 .. n |-> DigitChars[(k % 10) + 1] ]

InsertAt(s, k, c) == SubSeq(s, 1, k - 1) \o << c >> \o SubSeq(s, k, Len(s))

JunkChars == { " ", "x" }

RECURSIVE WithJunk(_, _)
WithJunk(S, n) ==
    IF n = 0 THEN S
    ELSE S \cup WithJunk(UNION { { InsertAt(s, k, c) : k \in 1 .. Len(s) + 1, c \in JunkChars }
                                 : s \in S }, n - 1)

(* Up to MaxDigits digits with up to MaxJunk other characters among them *)
AadhaarTexts == WithJunk({ DigitRun(n) : n \in 0 .. MaxDigits }, MaxJunk)

ShortAlphabet == { "a", "B", "1", " ", "-", "." }

(* Every text of 1 .. MaxShortLen characters of ShortAlphabet *)
ShortTexts == UNION { [ 1 .. m -> ShortAlphabet ] : m \in 1 .. MaxShortLen }

(* Phrases of 1 .. n words of a set, joined by single spaces *)
RECURSIVE Phrases(_, _)
Phrases(words, n) ==
    IF n = 0 THEN {}
    ELSE words \cup { p \o << " " >> \o w : p \in Phrases(words, n - 1), w \in words }

GenderWords == { << "m", "a", "l", "e" >>, << "F", "E", "M", "A", "L", "E" >>,
                 << "f", "e", "m", "a", "l" >>, << "m" >>, << "F" >>,
                 << "m", "a", "n" >>, << "w", "o", "m", "a", "n" >>,
                 << "x", "y", "z" >> }

NameWords == { << "j", "o", "H", "N" >>, << "o", "'", "b", "r", "i", "e", "n", "-", "-" >>,
               << "m", "a", "r", "y", "-", "J", "A", "N", "E" >>, << "a", ".", "b" >>,
               << "x" >> }

DateWords == { << "0", "1", "/", "0", "2", "/", "1", "9", "9", "0" >>,
               << "0", "3", "-", "0", "4", "-", "5", "6" >>,
               << "1", "9", "8", "7" >>, << "1", "2" >>, << "/" >>,
               << "5", "-", "6", "-", "7" >> }

OcrTextsFor(label) ==
    IF label = "AADHAR_NUMBER" THEN AadhaarTexts \cup ShortTexts
    ELSE IF label = "GENDER" THEN Phrases(GenderWords, MaxWords) \cup ShortTexts
    ELSE IF label = "NAME" THEN Phrases(NameWords, MaxWords) \cup ShortTexts
    ELSE Phrases(DateWords, MaxWords) \cup ShortTexts

(* The handler on one box of one of the four kinds, over the whole image,
   whatever text the engine reads there *)
InitNorm ==
    \E label \in REQUIRED_FIELDS :
        \E ocr \in OcrTextsFor(label) :
            StartHandler(<< [ label |-> label, conf |-> 90, bbox |-> InsideBox ] >>, << ocr >>)

SpecNorm == InitNorm /\ [][Next]_vars

---------------------------------------------------------------------------
(* The service, app/main.py: startup, /health and concurrent /extract       *)
(* requests of one worker process.  Each statement group of the handler is  *)
(* one step, and the steps of different requests interleave freely, which   *)
(* includes every schedule of the event loop.                               *)

(* The number of /extract requests *)
NReq == 2

ReqIds == 1 .. NReq

(* Settings.ALLOWED_EXTENSIONS *)
ALLOWED_EXTENSIONS ==
    { << ".", "j", "p", "g" >>, << ".", "j", "p", "e", "g" >>, << ".", "p", "n", "g" >> }

(* Settings.max_file_size_bytes *)
max_file_size_bytes == MAX_FILE_SIZE_MB * 1024 * 1024

(* ext = Path(filename).suffix.lower(); return ext in ALLOWED_EXTENSIONS *)
validate_file_extension(suffix) == Lower(suffix) \in ALLOWED_EXTENSIONS

(* return file_size <= settings.max_file_size_bytes *)
validate_file_size(file_size) == file_size <= max_file_size_bytes

(* What load_yolo_model() returns *)
YoloModel == << "YOLO" >>

(* Fault: only the model is tested *)
availability_gate_model_only(m, t) == IF m = None THEN 503 ELSE 0

(* The two tests at the head of the handler: the status they raise, 0 when
   they raise none *)
availability_gate(m, t) ==
    IF m = None THEN 503
    ELSE IF ~t THEN 503
    ELSE 0

(* status="healthy" if model is not None and tesseract_available else "degraded" *)
health_check(m, t) == IF m # None /\ t THEN "healthy" ELSE "degraded"

(* os.path.join(UPLOAD_DIR, f"{uuid.uuid4()}_{file.filename}"): a fresh path
   for every request *)
TempPath(r) == << "u", DigitChars[r + 1] >>

(* Fault: the try/except around the removal is missing *)
cleanup_unguarded(path, fs, remove_ok) ==
    IF path \in fs
    THEN IF remove_ok
         THEN [ files |-> fs \ { path }, raised |-> FALSE ]
         ELSE [ files |-> fs, raised |-> TRUE ]
    ELSE [ files |-> fs, raised |-> FALSE ]

(* cleanup_temp_file: the files left and whether an exception leaves the
   function; os.remove either removes the file or raises *)
cleanup_temp_file(path, fs, remove_ok) ==
    IF path \in fs
    THEN IF remove_ok
         THEN [ files |-> fs \ { path }, raised |-> FALSE ]
         ELSE [ files |-> fs, raised |-> FALSE ]
    ELSE [ files |-> fs, raised |-> FALSE ]

(* Fault: the dict is a module-level one, that of the first request *)
OwnData_shared(rs, r) == rs[1].extracted_data

(* The local extracted_data of request r *)
OwnData(rs, r) == rs[r].extracted_data

(* An uploaded file: the suffix of its name, its size in bytes, what open()
   and write() do with its temporary copy, whether cv2.imread can decode it,
   whether the detector raises on it, and else the detector's boxes with what
   the OCR engine yields on each *)
Upload(n, sfx, sz, sv, rd, dr, bs, ocr) ==
    [ name |-> n, suffix |-> sfx, size |-> sz, save |-> sv, readable |-> rd,
      detector_raises |-> dr, boxes |-> bs, tesseract |-> ocr ]

CardBox(l) == [ label |-> l, conf |-> 90, bbox |-> InsideBox ]

NameCardBoxes == << CardBox("NAME"), CardBox("ADDRESS"), CardBox("GENDER") >>

NameCardOcr == << << "j", "o", "H", "N" >>, << "x" >>, Raise >>

NumberCardBoxes == << CardBox("GENDER"), CardBox("AADHAR_NUMBER") >>

NumberCardOcr == << << "F" >>, DigitRun(AadhaarLen) >>

Jpg == << ".", "j", "p", "g" >>

Uploads ==
    { Upload("pdf", << ".", "p", "d", "f" >>, 1, "ok", TRUE, FALSE, << >>, << >>),
      Upload("big", Jpg, max_file_size_bytes + 1, "ok", TRUE, FALSE, << >>, << >>),
      Upload("open_fails", Jpg, 1, "open_fails", TRUE, FALSE, << >>, << >>),
      Upload("write_fails", Jpg, 1, "write_fails", TRUE, FALSE, << >>, << >>),
      Upload("corrupt", Jpg, 1, "ok", FALSE, FALSE, << >>, << >>),
      Upload("detector_fails", Jpg, 1, "ok", TRUE, TRUE, << >>, << >>),
      Upload("name_card", Jpg, 1, "ok", TRUE, FALSE, NameCardBoxes, NameCardOcr),
      Upload("number_card", << ".", "P", "N", "G" >>, max_file_size_bytes, "ok", TRUE,
             FALSE, NumberCardBoxes, NumberCardOcr) }

NoUpload == Upload("none", << >>, 0, "ok", TRUE, FALSE, << >>, << >>)

(* A request that has not arrived *)
NewRequest ==
    [ pc |-> "new", upload |-> NoUpload, temp_file_path |-> None, i |-> 1,
      detections |-> << >>, extracted_data |-> EmptyDict, processed_data |-> None,
      status |-> 0, resp |-> 0,
      validated |-> FALSE, read |-> FALSE, wrote |-> FALSE, detector_called |-> FALSE,
      ocr_calls |-> << >>, cleanup_attempted |-> FALSE, remove_failed |-> FALSE ]

(* "raise HTTPException(status_code=st)" or an exception that the handler's
   except clause turns into one: the finally clause is next *)
Raised(q, st) == [ q EXCEPT !.status = st, !.pc = "finally" ]

(* The startup part of lifespan: the model is loaded or left None, and
   tesseract_available is what check_tesseract_available() returns *)
Startup ==
    /\ ~started
    /\ \E m \in { YoloModel, None }, t \in BOOLEAN :
          /\ model' = m
          /\ tesseract_available' = t
    /\ started' = TRUE
    /\ UNCHANGED <<health, reqs, files, hvars>>

(* GET /health *)
HealthCheck ==
    /\ started
    /\ health' = health_check(model, tesseract_available)
    /\ UNCHANGED <<model, tesseract_available, started, reqs, files, hvars>>

(* POST /extract is called with an upload; temp_file_path = None *)
Arrive(r) ==
    /\ started
    /\ reqs[r].pc = "new"
    /\ \E u \in Uploads :
          reqs' = [ reqs EXCEPT ![r] = [ @ EXCEPT !.upload = u, !.pc = "gate" ] ]
    /\ UNCHANGED <<model, tesseract_available, started, health, files, hvars>>

(* "if model is None: raise 503" and "if not tesseract_available: raise 503" *)
Gate(r) ==
    /\ reqs[r].pc = "gate"
    /\ LET st == availability_gate(model, tesseract_available)
       IN  reqs' = [ reqs EXCEPT ![r] =
                       IF st # 0 THEN Raised(@, st) ELSE [ @ EXCEPT !.pc = "ext" ] ]
    /\ UNCHANGED <<model, tesseract_available, started, health, files, hvars>>

(* "if not validate_file_extension(file.filename): raise 400" *)
ValidateExt(r) ==
    /\ reqs[r].pc = "ext"
    /\ reqs' = [ reqs EXCEPT ![r] =
                   IF ~validate_file_extension(@.upload.suffix)
                   THEN Raised([ @ EXCEPT !.validated = TRUE ], 400)
                   ELSE [ @ EXCEPT !.validated = TRUE, !.pc = "read" ] ]
    /\ UNCHANGED <<model, tesseract_available, started, health, files, hvars>>

(* file_content = await file.read(); "if not validate_file_size(...): raise 400" *)
ReadUpload(r) ==
    /\ reqs[r].pc = "read"
    /\ reqs' = [ reqs EXCEPT ![r] =
                   IF ~validate_file_size(@.upload.size)
                   THEN Raised([ @ EXCEPT !.read = TRUE ], 400)
                   ELSE [ @ EXCEPT !.read = TRUE, !.pc = "save" ] ]
    /\ UNCHANGED <<model, tesseract_available, started, health, files, hvars>>

(* temp_file_path is assigned and the content is written to it; open() may
   raise before the file exists, write() after *)
SaveTemp(r) ==
    /\ reqs[r].pc = "save"
    /\ LET path == TempPath(r)
           q == [ reqs[r] EXCEPT !.temp_file_path = path ]
       IN  IF q.upload.save = "open_fails"
           THEN /\ reqs' = [ reqs EXCEPT ![r] = Raised(q, 500) ]
                /\ UNCHANGED files
           ELSE /\ files' = files \cup { path }
                /\ reqs' = [ reqs EXCEPT ![r] =
                               IF q.upload.save = "write_fails"
                               THEN Raised([ q EXCEPT !.wrote = TRUE ], 500)
                               ELSE [ q EXCEPT !.wrote = TRUE, !.pc = "imread" ] ]
    /\ UNCHANGED <<model, tesseract_available, started, health, hvars>>

(* image = cv2.imread(temp_file_path); "if image is None: raise 400" *)
ReadImage(r) ==
    /\ reqs[r].pc = "imread"
    /\ reqs' = [ reqs EXCEPT ![r] =
                   IF ~@.upload.readable
                   THEN Raised(@, 400)
                   ELSE [ @ EXCEPT !.pc = "detect" ] ]
    /\ UNCHANGED <<model, tesseract_available, started, health, files, hvars>>

(* results = model(image, conf=...); detections = []; extracted_data = {} *)
Detect(r) ==
    /\ reqs[r].pc = "detect"
    /\ reqs' = [ reqs EXCEPT ![r] =
                   IF @.upload.detector_raises
                   THEN Raised([ @ EXCEPT !.detector_called = TRUE ], 500)
                   ELSE [ @ EXCEPT !.detector_called = TRUE, !.i = 1,
                                   !.detections = << >>,
                                   !.extracted_data = EmptyDict,
                                   !.pc = "loop" ] ]
    /\ UNCHANGED <<model, tesseract_available, started, health, files, hvars>>

(* One iteration of the loop over the boxes, for request r *)
LoopStep(r) ==
    /\ reqs[r].pc = "loop"
    /\ reqs[r].i <= Len(reqs[r].upload.boxes)
    /\ LET q == reqs[r]
           box == q.upload.boxes[q.i]
           t == extract_text_from_region(box.bbox, ImgW, ImgH, q.upload.tesseract[q.i])
           called == IF t.called THEN Append(q.ocr_calls, q.i) ELSE q.ocr_calls
       IN  reqs' = [ reqs EXCEPT ![r] =
                       IF SkipLabel(box.label)
                       THEN [ q EXCEPT !.i = q.i + 1 ]
                       ELSE IF t.raised
                       THEN Raised([ q EXCEPT !.ocr_calls = called ], 500)
                       ELSE [ q EXCEPT
                                !.ocr_calls = called,
                                !.detections =
                                    Append(q.detections,
                                           [ label |-> box.label, confidence |-> box.conf,
                                             bbox |-> box.bbox, text |-> t.value ]),
                                !.extracted_data =
                                    StoreText(OwnData(reqs, r), box.label, t.value),
                                !.i = q.i + 1 ] ]
    /\ UNCHANGED <<model, tesseract_available, started, health, files, hvars>>

(* processed_data = postprocess_extracted_data(extracted_data); return response *)
Finish(r) ==
    /\ reqs[r].pc = "loop"
    /\ reqs[r].i > Len(reqs[r].upload.boxes)
    /\ reqs' = [ reqs EXCEPT ![r] =
                   [ @ EXCEPT !.processed_data = postprocess_extracted_data(OwnData(reqs, r)),
                              !.status = 200,
                              !.pc = "finally" ] ]
    /\ UNCHANGED <<model, tesseract_available, started, health, files, hvars>>

(* finally: "if temp_file_path: cleanup_temp_file(temp_file_path)"; then the
   response leaves the handler *)
Finally(r) ==
    /\ reqs[r].pc = "finally"
    /\ LET q == reqs[r]
       IN  IF Truthy(q.temp_file_path)
           THEN \E remove_ok \in BOOLEAN :
                   LET c == cleanup_temp_file(q.temp_file_path, files, remove_ok)
                   IN  /\ files' = c.files
                       /\ reqs' = [ reqs EXCEPT ![r] =
                                      [ q EXCEPT
                                          !.cleanup_attempted = TRUE,
                                          !.remove_failed =
                                              (q.temp_file_path \in files /\ ~remove_ok),
                                          !.resp = IF c.raised THEN 500 ELSE q.status,
                                          !.pc = "done" ] ]
           ELSE /\ reqs' = [ reqs EXCEPT ![r] = [ q EXCEPT !.resp = q.status, !.pc = "done" ] ]
                /\ UNCHANGED files
    /\ UNCHANGED <<model, tesseract_available, started, health, hvars>>

NextService ==
    \/ Startup
    \/ HealthCheck
    \/ \E r \in ReqIds :
          \/ Arrive(r)
          \/ Gate(r)
          \/ ValidateExt(r)
          \/ ReadUpload(r)
          \/ SaveTemp(r)
          \/ ReadImage(r)
          \/ Detect(r)
          \/ LoopStep(r)
          \/ Finish(r)
          \/ Finally(r)

(* The module's initial values: model = None, tesseract_available = False;
   no request, no temporary file, and no run of the handler's loop alone *)
InitService ==
    /\ model = None
    /\ tesseract_available = FALSE
    /\ started = FALSE
    /\ health = "none"
    /\ reqs = [ r \in ReqIds |-> NewRequest ]
    /\ files = { }
    /\ pc = "idle"
    /\ boxes = << >>
    /\ tesseract = << >>
    /\ i = 1
    /\ detections = << >>
    /\ extracted_data = EmptyDict
    /\ processed_data = None
    /\ response = 0
    /\ ocr_log = << >>
    /\ accepted = << >>

SpecService == InitService /\ [][NextService]_vars

---------------------------------------------------------------------------
(* Vocabulary of the properties, stated on the inputs *)

Kinds == { "AADHAR_NUMBER", "NAME", "DATE_OF_BIRTH", "GENDER" }

OutputKeys == { "AADHAR_NUMBER", "NAME", "DOB", "GENDER" }

KeyOf == [ AADHAR_NUMBER |-> "AADHAR_NUMBER", NAME |-> "NAME",
           DATE_OF_BIRTH |-> "DOB", GENDER |-> "GENDER" ]

Chars == Range(LowerLetters) \cup Range(UpperLetters) \cup Range(DigitChars)
            \cup { " ", "\n", "\t", "-", "/", ".", ",", "'" }

IsStr(v) == v \in Seq(Chars)

Finished == pc = "done"

(* Box j is of one of the four kinds and the engine, invoked on it, raises *)
OcrRaises(j) == boxes[j].label \in Kinds /\ tesseract[j] = Raise

(* The rectangle bbox and the image rectangle share at least one pixel *)
Overlaps(bbox) ==
    /\ Max(0, bbox[1]) < Min(ImgW, bbox[3])
    /\ Max(0, bbox[2]) < Min(ImgH, bbox[4])

(* Box j is of one of the four kinds, lies over the image, and the engine
   reads at least one character that is not whitespace in it *)
GivesText(j) ==
    /\ boxes[j].label \in Kinds
    /\ Overlaps(boxes[j].bbox)
    /\ tesseract[j] # Raise
    /\ \E k \in DOMAIN tesseract[j] : ~IsSpace(tesseract[j][k])

BoxesOfKey(key) == { j \in DOMAIN boxes : boxes[j].label \in Kinds /\ KeyOf[boxes[j].label] = key }

---------------------------------------------------------------------------
(* C1: whenever the handler has a field map, its keys are exactly
   AADHAR_NUMBER, NAME, DOB and GENDER, and every value is a string or None,
   whatever the detections and OCR results were. *)
C1_FieldMapHasExactlyFourKeys ==
    pc \in { "respond", "done" } /\ response # 500 =>
        /\ DOMAIN processed_data = OutputKeys
        /\ \A k \in DOMAIN processed_data :
              processed_data[k] = None \/ IsStr(processed_data[k])

(* C1 witness: a finished request whose detections held a label outside the
   four kinds and a DATE_OF_BIRTH box whose text reached the DOB key *)
C1_Witness ==
    /\ Finished
    /\ \E j \in DOMAIN boxes : boxes[j].label = "ADDRESS"
    /\ \E j \in DOMAIN boxes : boxes[j].label = "DATE_OF_BIRTH"
    /\ processed_data["DOB"] # None

(* C2: a finished request answers 200, and a key none of whose detections
   gave text is None; with no text at all the four values are None. *)
C2_NoTextGivesNone ==
    Finished =>
        /\ response = 200
        /\ \A key \in OutputKeys :
              (\A j \in BoxesOfKey(key) : ~GivesText(j)) => processed_data[key] = None

(* C2 witness: a finished request with detections, of which one was filtered
   out and one was read as whitespace only, and an all-None field map *)
C2_Witness ==
    /\ Finished
    /\ \E j \in DOMAIN boxes : boxes[j].label \notin Kinds
    /\ \E j \in DOMAIN boxes :
          boxes[j].label \in Kinds /\ tesseract[j] # Raise /\ ~GivesText(j)
    /\ \A key \in OutputKeys : processed_data[key] = None

(* C3: for every key with accepted detections, the value is the normalization
   of the text of the last accepted detection of that kind, None when that
   detection gave no text.  Stated for the requests in which every box is at
   or above the threshold and the engine never raises. *)
C3_LastSeenWins ==
    /\ Finished /\ response = 200
    /\ \A j \in DOMAIN boxes :
          boxes[j].conf >= CONFIDENCE_THRESHOLD /\ tesseract[j] # Raise
    =>
        \A key \in OutputKeys :
            LET of_kind == { n \in DOMAIN detections : KeyOf[detections[n].label] = key }
            IN  of_kind # {} =>
                  LET last == CHOOSE n \in of_kind : \A m \in of_kind : m <= n
                      text == detections[last].text
                  IN  processed_data[key] =
                          IF Truthy(text) THEN CleanField(key, text) ELSE None

(* C4: no accepted detection has a confidence below the threshold. *)
C4_BelowThresholdNeverAccepted ==
    \A n \in DOMAIN detections : detections[n].confidence >= CONFIDENCE_THRESHOLD

(* C5: a box whose label is outside the four kinds is never given to the OCR
   engine and never accepted, and the extracted data holds only keys and texts
   of boxes of the four kinds. *)
C5_AllowlistBeforeOcr ==
    /\ \A j \in DOMAIN boxes :
          boxes[j].label \notin Kinds =>
              /\ \A n \in DOMAIN ocr_log : ocr_log[n] # j
              /\ \A n \in DOMAIN accepted : accepted[n] # j
    /\ \A n \in DOMAIN detections : detections[n].label \in Kinds
    /\ \A key \in DOMAIN extracted_data :
          /\ key \in OutputKeys
          /\ \E j \in BoxesOfKey(key) : GivesText(j)

(* C5 witness: the loop has passed a box labelled ADDRESS in which the engine
   would have read text *)
C5_Witness ==
    \E j \in DOMAIN boxes :
        /\ j < i
        /\ boxes[j].label = "ADDRESS"
        /\ tesseract[j] = << "a", "1" >>

(* C6: when the engine raises on a box, the request still finishes with 200,
   the box is accepted with no text, every box of the four kinds is accepted,
   in order, and the key of the failed box is None unless another box of its
   kind gave text. *)
C6_OcrFailureIsolated ==
    Finished =>
        /\ response = 200
        /\ accepted = SelectSeq([ j \in DOMAIN boxes |-> j ],
                                LAMBDA j : boxes[j].label \in Kinds)
        /\ \A j \in DOMAIN boxes :
              OcrRaises(j) =>
                /\ \E n \in DOMAIN accepted :
                      accepted[n] = j /\ ~Truthy(detections[n].text)
                /\ (\A m \in BoxesOfKey(KeyOf[boxes[j].label]) : ~GivesText(m))
                      => processed_data[KeyOf[boxes[j].label]] = None

(* C6 witness: a finished request in which the engine raised on the first box
   and the second box, of another kind, still gave its field a value *)
C6_Witness ==
    /\ Finished
    /\ Len(boxes) = 2
    /\ OcrRaises(1)
    /\ boxes[2].label \in Kinds /\ boxes[2].label # boxes[1].label
    /\ processed_data[KeyOf[boxes[2].label]] # None
    /\ processed_data[KeyOf[boxes[1].label]] = None

---------------------------------------------------------------------------
(* Properties of the region adapter, under SpecRegion *)

(* A well-formed box that shares no pixel with the image: right of it, below
   it, left of it or above it *)
EntirelyOutside(bbox) ==
    /\ bbox[1] < bbox[3] /\ bbox[2] < bbox[4]
    /\ \/ bbox[1] >= ImgW
       \/ bbox[2] >= ImgH
       \/ bbox[3] <= 0
       \/ bbox[4] <= 0

(* C7: for a box entirely outside the image the engine is never invoked,
   nothing is raised, and the field is None. *)
C7_OutsideBoxGivesNone ==
    \A j \in DOMAIN boxes :
        EntirelyOutside(boxes[j].bbox) =>
            /\ \A n \in DOMAIN ocr_log : ocr_log[n] # j
            /\ response # 500
            /\ Finished => processed_data[KeyOf[boxes[j].label]] = None

---------------------------------------------------------------------------
(* Properties of the normalizers, under SpecNorm *)

(* The text the handler stored for the single box, None when it stored none *)
RawText(key) ==
    IF key \in DOMAIN extracted_data THEN extracted_data[key] ELSE None

(* The decimal digits of a text, in order *)
RECURSIVE DigitsIn(_)
DigitsIn(text) ==
    IF text = << >> THEN << >>
    ELSE IF Head(text) \in { "0", "1", "2", "3", "4", "5", "6", "7", "8", "9" }
         THEN << Head(text) >> \o DigitsIn(Tail(text))
         ELSE DigitsIn(Tail(text))

(* C8: a raw Aadhaar text with at least 12 digits is normalized to its first
   12 digits, in order, as three groups of four separated by one space. *)
C8_TwelveDigitsGrouped ==
    Finished /\ RawText("AADHAR_NUMBER") # None =>
        LET d == DigitsIn(RawText("AADHAR_NUMBER"))
            out == processed_data["AADHAR_NUMBER"]
        IN  Len(d) >= 12 =>
              /\ Len(out) = 14
              /\ out[5] = " " /\ out[10] = " "
              /\ \A k \in 1 .. 12 : out[k + ((k - 1) \div 4)] = d[k]

(* C8 witness: a finished request whose raw Aadhaar text had 13 digits and
   another character among them *)
C8_Witness ==
    /\ Finished
    /\ RawText("AADHAR_NUMBER") # None
    /\ Len(DigitsIn(RawText("AADHAR_NUMBER"))) = 13
    /\ Len(RawText("AADHAR_NUMBER")) > 13
    /\ processed_data["AADHAR_NUMBER"] # None

(* C9: a raw Aadhaar text with 1 to 11 digits is normalized to exactly those
   digits. *)
C9_FewDigitsUnformatted ==
    Finished /\ RawText("AADHAR_NUMBER") # None =>
        LET d == DigitsIn(RawText("AADHAR_NUMBER"))
        IN  Len(d) >= 1 /\ Len(d) <= 11 => processed_data["AADHAR_NUMBER"] = d

(* The characters the first cleaning step of each field keeps *)
Retained(key, c) ==
    LET digit == c \in { "0", "1", "2", "3", "4", "5", "6", "7", "8", "9" }
        letter == c \in Range(LowerLetters) \cup Range(UpperLetters)
        space == c \in { " ", "\n", "\t" }
    IN  IF key = "AADHAR_NUMBER" THEN digit
        ELSE IF key = "DOB" THEN digit \/ c \in { "/", "-" }
        ELSE IF key = "GENDER" THEN letter \/ space
        ELSE letter \/ space \/ c \in { "'", "-", "." }

(* C10: a raw text none of whose characters the field's cleaning keeps is
   normalized to None. *)
C10_NothingRetainedGivesNone ==
    Finished =>
        \A key \in OutputKeys :
            (/\ RawText(key) # None
             /\ \A k \in DOMAIN RawText(key) : ~Retained(key, RawText(key)[k]))
                => processed_data[key] = None

---------------------------------------------------------------------------
(* Properties of the gender normalizer, under SpecNorm *)

(* The letters and whitespace of a text, trimmed and in lowercase *)
RECURSIVE LettersAndSpaces(_)
LettersAndSpaces(text) ==
    IF text = << >> THEN << >>
    ELSE IF Head(text) \in Range(LowerLetters) \cup Range(UpperLetters) \cup { " ", "\n", "\t" }
         THEN << Head(text) >> \o LettersAndSpaces(Tail(text))
         ELSE LettersAndSpaces(Tail(text))

RECURSIVE Trimmed(_)
Trimmed(s) ==
    IF s = << >> THEN s
    ELSE IF Head(s) \in { " ", "\n", "\t" } THEN Trimmed(Tail(s))
    ELSE IF s[Len(s)] \in { " ", "\n", "\t" } THEN Trimmed(SubSeq(s, 1, Len(s) - 1))
    ELSE s

GenderCleaned(text) ==
    LET t == Trimmed(LettersAndSpaces(text))
    IN  [ k \in DOMAIN t |->
            IF t[k] \in Range(UpperLetters)
            THEN LowerLetters[CHOOSE n \in DOMAIN UpperLetters : UpperLetters[n] = t[k]]
            ELSE t[k] ]

HasWord(t, w) == \E k \in 1 .. Len(t) - Len(w) + 1 : \A n \in DOMAIN w : t[k + n - 1] = w[n]

WordMale == << "M", "a", "l", "e" >>
WordFemale == << "F", "e", "m", "a", "l", "e" >>

(* C11: a gender text whose cleaned lowercase form contains "femal" is
   normalized to "Female", also when "male" occurs elsewhere in it; one that
   contains "male" and no "femal" is normalized to "Male". *)
C11_FemaleBeforeMale ==
    Finished /\ RawText("GENDER") # None =>
        LET t == GenderCleaned(RawText("GENDER"))
        IN  /\ HasWord(t, << "f", "e", "m", "a", "l" >>) => processed_data["GENDER"] = WordFemale
            /\ (HasWord(t, << "m", "a", "l", "e" >>) /\ ~HasWord(t, << "f", "e", "m", "a", "l" >>))
                  => processed_data["GENDER"] = WordMale

(* C12: a gender text whose cleaned lowercase form contains neither "femal"
   nor "male" is normalized to "Male" exactly when it is "m" or "man", to
   "Female" exactly when it is "f" or "woman", and is otherwise returned in
   its cleaned lowercase form, None when that is empty. *)
C12_GenderShortFormsAndPassThrough ==
    Finished /\ RawText("GENDER") # None =>
        LET t == GenderCleaned(RawText("GENDER"))
            out == processed_data["GENDER"]
            is_m == t \in { << "m" >>, << "m", "a", "n" >> }
            is_f == t \in { << "f" >>, << "w", "o", "m", "a", "n" >> }
        IN  (~HasWord(t, << "f", "e", "m", "a", "l" >>) /\ ~HasWord(t, << "m", "a", "l", "e" >>)) =>
              /\ (out = WordMale) <=> is_m
              /\ (out = WordFemale) <=> is_f
              /\ (~is_m /\ ~is_f /\ t # << >>) => out = t
              /\ t = << >> => out = None

(* C12 witness: a finished request whose gender text, "xyz" after cleaning,
   was returned as it is *)
C12_Witness ==
    /\ Finished
    /\ RawText("GENDER") # None
    /\ GenderCleaned(RawText("GENDER")) = << "x", "y", "z" >>
    /\ processed_data["GENDER"] = << "x", "y", "z" >>

---------------------------------------------------------------------------
(* Properties of the name normalizer, under SpecNorm *)

IsUp(c) == c \in Range(UpperLetters)
IsLow(c) == c \in Range(LowerLetters)
IsAlpha(c) == IsUp(c) \/ IsLow(c)

(* C13 as claimed: in the normalized name the first character of every
   whitespace-delimited token, when a letter, is uppercase and every other
   letter of the token is lowercase, also after an apostrophe, hyphen or
   period. *)
C13_TokenTitleCase ==
    Finished /\ RawText("NAME") # None =>
        LET out == processed_data["NAME"]
        IN  \A k \in DOMAIN out :
              IsAlpha(out[k]) =>
                IF k = 1 \/ out[k - 1] \in { " ", "\n", "\t" }
                THEN IsUp(out[k]) ELSE IsLow(out[k])

(* C13 as amended: in the normalized name every letter that follows a letter
   is lowercase and every other letter is uppercase, so a letter that follows
   an apostrophe, hyphen or period is uppercase; "joHN o'brien--" gives
   "John O'Brien". *)
C13_LetterRunTitleCase ==
    Finished /\ RawText("NAME") # None =>
        LET out == processed_data["NAME"]
        IN  /\ \A k \in DOMAIN out :
                  IsAlpha(out[k]) =>
                    IF k > 1 /\ IsAlpha(out[k - 1]) THEN IsLow(out[k]) ELSE IsUp(out[k])
            /\ RawText("NAME") = << "j", "o", "H", "N", " ", "o", "'", "b", "r", "i", "e", "n", "-", "-" >>
                  => out = << "J", "o", "h", "n", " ", "O", "'", "B", "r", "i", "e", "n" >>

(* C13 witness: the name "joHN o'brien--" has been normalized *)
C13_Witness ==
    /\ Finished
    /\ RawText("NAME") = << "j", "o", "H", "N", " ", "o", "'", "b", "r", "i", "e", "n", "-", "-" >>
    /\ processed_data["NAME"] # None

---------------------------------------------------------------------------
(* C14: the Aadhaar, gender and name normalizers return their own output
   unchanged: normalizing a normalized value that is not None gives the same
   value. *)
C14_NormalizersIdempotent ==
    Finished =>
        \A key \in { "AADHAR_NUMBER", "GENDER", "NAME" } :
            processed_data[key] # None =>
                CleanField(key, processed_data[key]) = processed_data[key]

---------------------------------------------------------------------------
(* The reference rule for dates *)

RECURSIVE DateChars(_)
DateChars(text) ==
    IF text = << >> THEN << >>
    ELSE IF Head(text) \in { "0", "1", "2", "3", "4", "5", "6", "7", "8", "9", "/", "-" }
         THEN << Head(text) >> \o DateChars(Tail(text))
         ELSE DateChars(Tail(text))

Dig(t, k) == t[k] \in { "0", "1", "2", "3", "4", "5", "6", "7", "8", "9" }
Sep(t, k) == t[k] \in { "/", "-" }

(* A date with a year of y digits starts at position k of t *)
DateAt(t, k, y) ==
    /\ k + 5 + y <= Len(t)
    /\ Dig(t, k) /\ Dig(t, k + 1) /\ Sep(t, k + 2)
    /\ Dig(t, k + 3) /\ Dig(t, k + 4) /\ Sep(t, k + 5)
    /\ \A n \in 1 .. y : Dig(t, k + 5 + n)

YearAt(t, k) == k + 3 <= Len(t) /\ \A n \in 0 .. 3 : Dig(t, k + n)

Least(S) == CHOOSE k \in S : \A m \in S : k <= m

Slashed(t) == [ k \in DOMAIN t |-> IF t[k] = "-" THEN "/" ELSE t[k] ]

RefDate(text) ==
    LET t == DateChars(text)
        long == { k \in DOMAIN t : DateAt(t, k, 4) }
        short == { k \in DOMAIN t : DateAt(t, k, 2) }
        year == { k \in DOMAIN t : YearAt(t, k) }
    IN  IF long # {} THEN Slashed(SubSeq(t, Least(long), Least(long) + 9))
        ELSE IF short # {} THEN Slashed(SubSeq(t, Least(short), Least(short) + 7))
        ELSE IF year # {} THEN SubSeq(t, Least(year), Least(year) + 3)
        ELSE IF t # << >> THEN t ELSE None

(* C15: the date normalizer returns what the reference rule returns, for
   every raw text. *)
C15_DateFollowsReferenceRule ==
    Finished /\ RawText("DOB") # None => processed_data["DOB"] = RefDate(RawText("DOB"))

(* C15 witness: a finished request whose date text holds a date with a
   two-digit year written with hyphens after other digits, so that the second
   pattern decides and the separators are rewritten *)
C15_Witness ==
    /\ Finished
    /\ RawText("DOB") = << "1", "2", " ", "0", "3", "-", "0", "4", "-", "5", "6" >>
    /\ processed_data["DOB"] = << "0", "3", "/", "0", "4", "/", "5", "6" >>

---------------------------------------------------------------------------
(* Properties of the detections list, under Spec *)

(* A text with every run of whitespace made one space and the ends trimmed *)
RECURSIVE Squeezed(_)
Squeezed(s) ==
    IF s = << >> THEN << >>
    ELSE IF Head(s) \in { " ", "\n", "\t" }
         THEN IF Len(s) > 1 /\ s[2] \in { " ", "\n", "\t" }
              THEN Squeezed(Tail(s))
              ELSE << " " >> \o Squeezed(Tail(s))
         ELSE << Head(s) >> \o Squeezed(Tail(s))

(* The raw text of box j: what the engine read, whitespace squeezed; None
   when that is empty, the empty text when the engine raised or the box
   shares no pixel with the image *)
RawTextOf(bbox, ocr) ==
    IF ocr = Raise \/ ~Overlaps(bbox) THEN << >>
    ELSE IF Trimmed(Squeezed(ocr)) = << >> THEN None
    ELSE Trimmed(Squeezed(ocr))

RawOcrText(j) == RawTextOf(boxes[j].bbox, tesseract[j])

(* The indices below n of the boxes of the four kinds, in increasing order *)
RECURSIVE KindIndicesBelow(_)
KindIndicesBelow(n) ==
    IF n <= 1 THEN << >>
    ELSE IF boxes[n - 1].label \in Kinds
         THEN Append(KindIndicesBelow(n - 1), n - 1)
         ELSE KindIndicesBelow(n - 1)

(* C16: the detections list holds one entry for every box of the four kinds
   that the loop has passed, in the detector's order, duplicates of a kind
   included, each with the box's label, confidence and bounding box and its
   raw text, not the normalized one. *)
C16_DetectionsListInDetectorOrder ==
    LET idx == KindIndicesBelow(i)
    IN  /\ Len(detections) = Len(idx)
        /\ \A n \in DOMAIN detections :
              detections[n] = [ label |-> boxes[idx[n]].label,
                                confidence |-> boxes[idx[n]].conf,
                                bbox |-> boxes[idx[n]].bbox,
                                text |-> RawOcrText(idx[n]) ]
        /\ Finished => i = Len(boxes) + 1

(* C16 witness: a finished request with two boxes of the same kind, both in
   the list, the first with the raw text "a1" and the second with "b 2", which
   is not the normalized value of the field *)
C16_Witness ==
    /\ Finished
    /\ Len(boxes) = 2
    /\ boxes[1].label = "NAME" /\ boxes[2].label = "NAME"
    /\ Len(detections) = 2
    /\ detections[1].text = << "a", "1" >>
    /\ detections[2].text = << "b", " ", "2" >>
    /\ processed_data["NAME"] = << "B" >>

---------------------------------------------------------------------------
(* Properties of the service, under SpecService *)

(* Both handles are there *)
Available == model # None /\ tesseract_available

Arrived(r) == reqs[r].pc # "new"

Answered(r) == reqs[r].pc = "done"

(* The status each upload is answered with by a service that is available *)
StatusOf ==
    [ pdf |-> 400, big |-> 400, open_fails |-> 500, write_fails |-> 500,
      corrupt |-> 400, detector_fails |-> 500, name_card |-> 200, number_card |-> 200 ]

ExpectedStatus(u) == IF Available THEN StatusOf[u.name] ELSE 503

(* The detections of the first n boxes of upload u, from u alone *)
RECURSIVE DetectionsAlone(_, _)
DetectionsAlone(u, n) ==
    IF n = 0 THEN << >>
    ELSE IF u.boxes[n].label \in Kinds
         THEN Append(DetectionsAlone(u, n - 1),
                     [ label |-> u.boxes[n].label, confidence |-> u.boxes[n].conf,
                       bbox |-> u.boxes[n].bbox,
                       text |-> RawTextOf(u.boxes[n].bbox, u.tesseract[n]) ])
         ELSE DetectionsAlone(u, n - 1)

(* The boxes among the first n of upload u that give key a text *)
TextBoxes(u, n, key) ==
    { j \in 1 .. n : /\ u.boxes[j].label \in Kinds
                     /\ KeyOf[u.boxes[j].label] = key
                     /\ Truthy(RawTextOf(u.boxes[j].bbox, u.tesseract[j])) }

(* The raw texts that the first n boxes of upload u leave, from u alone: for
   each key the text of the last box that gives it one *)
DataAlone(u, n) ==
    [ key \in { k \in OutputKeys : TextBoxes(u, n, k) # { } } |->
        LET last == CHOOSE j \in TextBoxes(u, n, key) :
                        \A m \in TextBoxes(u, n, key) : m <= j
        IN  RawTextOf(u.boxes[last].bbox, u.tesseract[last]) ]

(* The field map of upload u, from u alone *)
FieldsAlone(u) ==
    LET data == DataAlone(u, Len(u.boxes))
    IN  [ key \in OutputKeys |->
            IF key \in DOMAIN data THEN CleanField(key, data[key]) ELSE None ]

OwnResultOnly ==
    \A r \in ReqIds :
        /\ reqs[r].pc = "loop" =>
              /\ reqs[r].detections = DetectionsAlone(reqs[r].upload, reqs[r].i - 1)
              /\ reqs[r].extracted_data = DataAlone(reqs[r].upload, reqs[r].i - 1)
        /\ reqs[r].status = 200 =>
              /\ reqs[r].detections =
                    DetectionsAlone(reqs[r].upload, Len(reqs[r].upload.boxes))
              /\ reqs[r].processed_data = FieldsAlone(reqs[r].upload)

HandlesWrittenAtStartupOnly ==
    (model' # model \/ tesseract_available' # tesseract_available)
        => (~started /\ started')

(* C17: under any interleaving of the requests, the detections list and the
   field map of each request are those its own upload gives alone, and the
   globals model and tesseract_available change in no step other than
   startup. *)
C17_RequestsIndependent ==
    /\ []OwnResultOnly
    /\ [][HandlesWrittenAtStartupOnly]_vars

(* C17 witness: two requests with different cards are both inside their
   loops, each with texts of its own card stored *)
C17_Witness ==
    /\ reqs[1].pc = "loop" /\ reqs[2].pc = "loop"
    /\ reqs[1].upload.name = "name_card" /\ reqs[2].upload.name = "number_card"
    /\ DOMAIN reqs[1].extracted_data = { "NAME" }
    /\ DOMAIN reqs[2].extracted_data = { "GENDER" }

(* C18: a request that assigned a temporary path has attempted to delete the
   file before it is answered, whatever its status (200, 400 for an unreadable
   image, 500 for an exception); the status is the one its upload determines,
   whether or not the deletion failed; a file is left only by a failed
   deletion; and a request rejected with 503, for its extension or for its
   size never assigns a path or creates a file. *)
C18_TempFileLifecycle ==
    \A r \in ReqIds :
        /\ reqs[r].resp # 0 => Answered(r)
        /\ Answered(r) =>
              /\ reqs[r].resp = ExpectedStatus(reqs[r].upload)
              /\ Truthy(reqs[r].temp_file_path) => reqs[r].cleanup_attempted
              /\ TempPath(r) \in files => reqs[r].remove_failed
        /\ Truthy(reqs[r].temp_file_path) =>
              /\ reqs[r].temp_file_path = TempPath(r)
              /\ reqs[r].upload.name \in
                    { "open_fails", "write_fails", "corrupt", "detector_fails",
                      "name_card", "number_card" }
        /\ (Arrived(r) /\ (~Available \/ reqs[r].upload.name \in { "pdf", "big" })) =>
              /\ reqs[r].temp_file_path = None
              /\ ~reqs[r].wrote
              /\ TempPath(r) \notin files
        /\ ~Arrived(r) => TempPath(r) \notin files

(* C18 witness: the three kinds of path that assigned a temporary path, with
   the deletion failed on the unreadable image: 400 all the same, and 200 and
   500 for the other two *)
C18_Witness ==
    \E r \in ReqIds :
        /\ Answered(r)
        /\ reqs[r].upload.name = "corrupt"
        /\ reqs[r].cleanup_attempted /\ reqs[r].remove_failed
        /\ reqs[r].resp = 400
        /\ TempPath(r) \in files
        /\ \E q \in ReqIds :
              /\ Answered(q)
              /\ reqs[q].upload.name \in { "write_fails", "name_card" }
              /\ reqs[q].cleanup_attempted /\ ~reqs[q].remove_failed
              /\ reqs[q].resp \in { 200, 500 }

(* C19: after startup a /health response says "healthy" exactly when the
   model is loaded and Tesseract is available; and while the service is
   degraded every /extract request is answered with 503 and none has
   validated or read its upload, written a file, called the detector or
   invoked the OCR engine. *)
C19_AvailabilityGate ==
    /\ health # "none" => (started /\ (health = "healthy" <=> Available))
    /\ (started /\ ~Available) =>
          \A r \in ReqIds :
              /\ Answered(r) => reqs[r].resp = 503
              /\ reqs[r].resp \in { 0, 503 }
              /\ reqs[r].pc \in { "new", "gate", "finally", "done" }
              /\ ~reqs[r].validated /\ ~reqs[r].read /\ ~reqs[r].wrote
              /\ reqs[r].temp_file_path = None
              /\ ~reqs[r].detector_called
              /\ reqs[r].ocr_calls = << >>
              /\ TempPath(r) \notin files

(* C19 witness: the model is loaded, Tesseract is missing, /health has said
   "degraded", and the upload of a good card has been answered with 503 *)
C19_Witness ==
    /\ health = "degraded"
    /\ model # None /\ ~tesseract_available
    /\ \E r \in ReqIds :
          /\ Answered(r)
          /\ reqs[r].upload.name = "name_card"
          /\ reqs[r].resp = 503

====
